---- MODULE Spec2Model ----
(***************************************************************************)
(* Model of suikammd/tg_channel_bot: the Tumblr fetcher                    *)
(* (fetchers/tumblr.go: getUserTimeline, GetPush, GoBack, Block) and the   *)
(* Telegram dispatcher (Send, SendAll).                                    *)
(*                                                                         *)
(* Go strings are sequences of one-character strings, so that              *)
(* strings.Split, strings.ToLower, strings.HasSuffix, strconv.FormatInt    *)
(* and fmt.Sprintf are computed as the code computes them.                 *)
(* Go int64 values are modelled at a reduced width of IntBits bits, with   *)
(* two's complement wrap-around on subtraction.                            *)
(***************************************************************************)
EXTENDS Integers, Sequences, FiniteSets, TLC

VARIABLES
    OAuthConsumerKey,  \* TumblrFetcher.OAuthConsumerKey (from the JSON configuration)
    feed,              \* remote: the posts the Tumblr API currently returns per blog
    cache,             \* f.cache: the live keys of the go-cache dedup cache
    block,             \* f.DB bucket "block": key -> bool
    last_update,       \* f.DB bucket "last_update": userid -> int64
    now,               \* time.Now().Unix()
    op,                \* the last fetcher operation with its arguments and results
    blockCalls,        \* history: the <<userid, text>> calls of Block with a 4-segment text
    sendOp,            \* the last dispatcher operation with its arguments and results
    fetches,           \* the getUserTimeline invocations running concurrently, each at its position
    sendAll            \* a SendAll call: its loop and the goroutines it started

vars == <<OAuthConsumerKey, feed, cache, block, last_update, now, op, blockCalls, sendOp,
          fetches, sendAll>>

fetcherVars == <<OAuthConsumerKey, feed, cache, block, last_update, now, op, blockCalls>>

-----------------------------------------------------------------------------
(* Bounds *)

\* width of the modelled int64 of Unix times and cursors (the program's is 64);
\* post identifiers are never subject to arithmetic and stay plain numbers
IntBits == 2

\* most resources of a message handed to Send
MaxRes == 23

\* most messages handed to SendAll
MaxMessages == 3

\* longest caption of a message handed to Send
MaxCaption == 192

-----------------------------------------------------------------------------
(* int64 *)

RECURSIVE Pow2(_)
Pow2(n) == IF n = 0 THEN 1 ELSE 2 * Pow2(n - 1)

MaxInt64 == Pow2(IntBits - 1) - 1
MinInt64 == 0 - Pow2(IntBits - 1)
Int64 == MinInt64..MaxInt64

\* Go's wrapping signed arithmetic: the value of x as an int64
WrapInt64(x) == ((x - MinInt64) % Pow2(IntBits)) + MinInt64

-----------------------------------------------------------------------------
(* strings *)

Digits == <<"0", "1", "2", "3", "4", "5", "6", "7", "8", "9">>

\* strconv.FormatInt(n, 10)
RECURSIVE FormatNat(_)
FormatNat(n) == IF n < 10 THEN <<Digits[n + 1]>>
                ELSE FormatNat(n \div 10) \o <<Digits[(n % 10) + 1]>>

FormatInt(n) == IF n < 0 THEN <<"-">> \o FormatNat(0 - n) ELSE FormatNat(n)

\* strings.Split(s, sep) for a one-character separator
RECURSIVE Split(_, _)
Split(s, sep) ==
    IF \A i \in 1..Len(s) : s[i] # sep
    THEN <<s>>
    ELSE LET i == CHOOSE k \in 1..Len(s) :
                     s[k] = sep /\ \A j \in 1..(k - 1) : s[j] # sep
         IN <<SubSeq(s, 1, i - 1)>> \o Split(SubSeq(s, i + 1, Len(s)), sep)

\* strings.ToLower on the characters used here
LowerChar(c) == CASE c = "G" -> "g"
                  [] c = "I" -> "i"
                  [] c = "F" -> "f"
                  [] OTHER -> c

ToLower(s) == [i \in 1..Len(s) |-> LowerChar(s[i])]

\* strings.HasSuffix(s, suffix)
HasSuffix(s, suffix) ==
    /\ Len(s) >= Len(suffix)
    /\ SubSeq(s, Len(s) - Len(suffix) + 1, Len(s)) = suffix

\* fmt.Sprintf("%s@%s", x, y)
SprintfAt(x, y) == x \o <<"@">> \o y

EmptyString == <<>>

-----------------------------------------------------------------------------
(* Resource model (fetchers.Resource, fetchers.ReplyMessage) *)

TIMAGE == "TIMAGE"
TVIDEO == "TVIDEO"

\* Resource{URL, T, Caption}
Resource(url, t, caption) == [URL |-> url, T |-> t, Caption |-> caption]

\* ReplyMessage{Resources, Caption, Err}
ReplyMessage(res, caption, err) == [Resources |-> res, Caption |-> caption, Err |-> err]

nil == "nil"

-----------------------------------------------------------------------------
(* The remote feed: TumblrPosts.Response.Posts *)

\* Trail[i].Post.ID is an interface{}: encoding/json decodes a JSON string to
\* string, a JSON number to float64 and null (or an absent field) to nil.
StringID(s) == [kind |-> "string", s |-> s, n |-> 0]
NumberID(n) == [kind |-> "float64", s |-> EmptyString, n |-> n]
NilID == [kind |-> "nil", s |-> EmptyString, n |-> 0]

Post(type, id, ts, trail, photos, video) ==
    [Type |-> type, ID |-> id, Timestamp |-> ts,
     Trail |-> [i \in 1..Len(trail) |-> [Post_ID |-> trail[i]]],
     Photos |-> photos, VideoURL |-> video,
     ShortURL |-> <<"t", "/">> \o FormatInt(id)]

\* photo URLs: the 4th "/"-separated segment is the image hash
UrlF == <<"h", ":", "/", "/", "m", "/", "F", "/", "1">>
UrlG == <<"h", ":", "/", "/", "m", "/", "G", "/", "2">>
\* fewer than 4 segments, upper-case .GIF suffix
UrlGif == <<"m", "/", "x", ".", "G", "I", "F">>
UrlV == <<"v", ".", "m", "p", "4">>

\* an original photo post with two photos
PostA == Post(<<"photo">>, 5, 1, <<>>, <<UrlF, UrlG>>, EmptyString)
\* a reblog of post 5 with a two-entry trail, original id as a JSON string
PostB == Post(<<"photo">>, 7, 1, <<StringID(<<"5">>), StringID(<<"9">>)>>, <<UrlF>>, EmptyString)
\* a reblog of post 5 with a one-entry trail, a video
PostC == Post(<<"video">>, 8, 1, <<StringID(<<"5">>)>>, <<>>, UrlV)
\* an older reblog of post 5 whose original id is a JSON number
PostD == Post(<<"photo">>, 6, 0, <<NumberID(5), NilID>>, <<UrlGif>>, EmptyString)
\* an older text post
PostT == Post(<<"text">>, 3, 0, <<>>, <<>>, EmptyString)

PostPool == {PostA, PostB, PostC, PostD, PostT}

\* the feeds the API may return, in any order (pinned posts break newest-first)
Feeds(pool) == {<<>>} \cup {<<p>> : p \in pool} \cup {<<p, q>> : p \in pool, q \in pool}

blogA == <<"a">>
blogB == <<"b">>
Sources == {blogA, blogB}

\* feeds of the blogs when single fetches are examined (SpecFetch) ...
FetchFeeds(user) == IF user = blogA THEN Feeds(PostPool) ELSE {<<PostA>>}

\* ... and when whole pushes are (Spec)
PushFeeds(user) == IF user = blogA
                   THEN {<<>>, <<PostA, PostD>>, <<PostD, PostA>>}
                   ELSE {<<PostA>>}

\* the recipients that follow sources
Subscribers == {<<"s">>}

-----------------------------------------------------------------------------
(* Collaborators: go-cache and the storm DB *)

\* cache.Get(k): found
CacheGet(c, k) == k \in c

\* CacheSet as it would be if the entry were not stored
CacheSetForgets(c, k) == c

\* cache.Set(k, true, cache.DefaultExpiration)
CacheSet(c, k) == c \cup {k}

\* DB.Get(bucket, key, &to): err == nil iff the key is stored; on an error
\* the variable `to` keeps its value
DBGet(db, key, to) == IF key \in DOMAIN db
                      THEN [err |-> nil, val |-> db[key]]
                      ELSE [err |-> "not found", val |-> to]

\* DB.Set(bucket, key, value)
DBSet(db, key, value) == [k \in DOMAIN db \cup {key} |-> IF k = key THEN value ELSE db[k]]

EmptyDB == [k \in {} |-> FALSE]

-----------------------------------------------------------------------------
(* TumblrFetcher.getUserTimeline *)

\* lines 111-123: the id the dedup key is built from
MsgID(p) ==
    LET own == FormatInt(p.ID) IN
    IF Len(p.Trail) > 1
    THEN LET id == p.Trail[1].Post_ID
             \* msgid_str, ok := p.Trail[0].Post.ID.(string)
             s1 == IF id.kind = "string" /\ id.s # EmptyString THEN id.s ELSE own
             \* msgid_int64, ok := p.Trail[0].Post.ID.(int64)
         IN IF id.kind = "int64" /\ id.n # 0 THEN FormatInt(id.n) ELSE s1
    ELSE own

\* lines 133-136: the resource type of a photo
PhotoType(url) == IF HasSuffix(ToLower(url), <<".", "g", "i", "f">>) THEN TVIDEO ELSE TIMAGE

\* lines 138-147: whether the photo is skipped as blocked
PhotoBlocked(user, url, blockDB) ==
    LET strsplit == Split(url, "/") IN
    /\ Len(strsplit) >= 4
    /\ LET imghash == SprintfAt(user, strsplit[4])
           got == DBGet(blockDB, imghash, FALSE)
       IN got.err = nil /\ got.val

\* lines 131-153: the resources of one post
RECURSIVE PhotoResources(_, _, _, _)
PhotoResources(user, photos, i, blockDB) ==
    IF i > Len(photos) THEN <<>>
    ELSE LET url == photos[i]
             rest == PhotoResources(user, photos, i + 1, blockDB)
         IN IF PhotoBlocked(user, url, blockDB)
            THEN rest
            ELSE <<Resource(url, PhotoType(url), url)>> \o rest

\* PostResources as it would be if one blocked photo dropped the whole post
PostResourcesDropsPost(user, p, blockDB) ==
    IF \E i \in 1..Len(p.Photos) : PhotoBlocked(user, p.Photos[i], blockDB)
    THEN <<>>
    ELSE PhotoResources(user, p.Photos, 1, blockDB)
             \o (IF p.VideoURL # EmptyString
                 THEN <<Resource(p.VideoURL, TVIDEO, p.VideoURL)>>
                 ELSE <<>>)

PostResources(user, p, blockDB) ==
    PhotoResources(user, p.Photos, 1, blockDB)
        \o (IF p.VideoURL # EmptyString
            THEN <<Resource(p.VideoURL, TVIDEO, p.VideoURL)>>
            ELSE <<>>)

\* PostAction as it would be if an old post were skipped instead of ending the loop
PostActionSkipsOld(p, time) ==
    IF p.Type # <<"photo">> /\ p.Type # <<"video">> THEN "continue"
    ELSE IF p.Timestamp < time THEN "continue"
    ELSE "process"

\* lines 104-109: what the loop does with a post before looking at its id
PostAction(p, time) ==
    IF p.Type # <<"photo">> /\ p.Type # <<"video">> THEN "continue"
    ELSE IF p.Timestamp < time THEN "break"
    ELSE "process"

\* TimelineLoop as it would be if the key were inserted only once a message is
\* appended for the post
RECURSIVE TimelineLoopInsertsOnEmit(_, _, _, _, _, _)
TimelineLoopInsertsOnEmit(user, time, posts, i, blockDB, acc) ==
    IF i > Len(posts) THEN acc
    ELSE LET p == posts[i] IN
         IF PostAction(p, time) = "continue"
         THEN TimelineLoopInsertsOnEmit(user, time, posts, i + 1, blockDB, acc)
         ELSE IF PostAction(p, time) = "break"
         THEN acc
         ELSE LET msgid == SprintfAt(user, MsgID(p)) IN
              IF CacheGet(acc.cache, msgid)
              THEN TimelineLoopInsertsOnEmit(user, time, posts, i + 1, blockDB, acc)
              ELSE LET res == PostResources(user, p, blockDB)
                       emit == Len(res) > 0
                   IN TimelineLoopInsertsOnEmit(user, time, posts, i + 1, blockDB,
                        [ret |-> IF emit
                                 THEN Append(acc.ret, ReplyMessage(res, p.ShortURL, nil))
                                 ELSE acc.ret,
                         cache |-> IF emit THEN CacheSet(acc.cache, msgid) ELSE acc.cache,
                         seen |-> Append(acc.seen,
                                    [idx |-> i, key |-> msgid, emitted |-> emit])])

\* lines 103-158: the loop over the posts from index i on. acc.ret is the
\* result so far, acc.cache the dedup cache; acc.seen records, for every post
\* that passed the dedup check, its index, its key and whether a message was
\* appended for it.
RECURSIVE TimelineLoop(_, _, _, _, _, _)
TimelineLoop(user, time, posts, i, blockDB, acc) ==
    IF i > Len(posts) THEN acc
    ELSE LET p == posts[i] IN
         IF PostAction(p, time) = "continue"
         THEN TimelineLoop(user, time, posts, i + 1, blockDB, acc)
         ELSE IF PostAction(p, time) = "break"
         THEN acc
         ELSE LET msgid == SprintfAt(user, MsgID(p)) IN
              IF CacheGet(acc.cache, msgid)
              THEN TimelineLoop(user, time, posts, i + 1, blockDB, acc)  \* continue
              ELSE LET res == PostResources(user, p, blockDB)
                       emit == Len(res) > 0
                   IN TimelineLoop(user, time, posts, i + 1, blockDB,
                        [ret |-> IF emit
                                 THEN Append(acc.ret, ReplyMessage(res, p.ShortURL, nil))
                                 ELSE acc.ret,
                         cache |-> CacheSet(acc.cache, msgid),
                         seen |-> Append(acc.seen,
                                    [idx |-> i, key |-> msgid, emitted |-> emit])])

\* what the HTTP request and the decoding of its answer can come to
Responses == {"ok", "http error", "bad json", "bad status"}

\* getUserTimeline as it would be if the status of the answer were looked at
\* after the loop over the posts
getUserTimelineStatusAfterLoop(user, time, key, response, posts, c, blockDB) ==
    LET failed(e, cc) == [ret |-> <<>>, err |-> e, cache |-> cc, seen |-> <<>>,
                          requested |-> e # "Need API key."]
        r == TimelineLoop(user, time, posts, 1, blockDB,
                          [ret |-> <<>>, cache |-> c, seen |-> <<>>])
    IN IF key = EmptyString THEN failed("Need API key.", c)
       ELSE IF response = "http error" THEN failed("http error", c)
       ELSE IF response = "bad json" THEN failed("bad json", c)
       ELSE IF response = "bad status" THEN failed("Tumblr api error.", r.cache)
       ELSE [ret |-> r.ret, err |-> nil, cache |-> r.cache, seen |-> r.seen, requested |-> TRUE]

\* getUserTimeline(user, time) when the request ends as `response` and, if it
\* succeeds, carries `posts`
getUserTimeline(user, time, key, response, posts, c, blockDB) ==
    LET failed(e) == [ret |-> <<>>, err |-> e, cache |-> c, seen |-> <<>>, requested |-> e # "Need API key."]
    IN IF key = EmptyString THEN failed("Need API key.")
       ELSE IF response = "http error" THEN failed("http error")
       ELSE IF response = "bad json" THEN failed("bad json")
       ELSE IF response = "bad status" THEN failed("Tumblr api error.")
       ELSE LET r == TimelineLoop(user, time, posts, 1, blockDB,
                                  [ret |-> <<>>, cache |-> c, seen |-> <<>>])
            IN [ret |-> r.ret, err |-> nil, cache |-> r.cache, seen |-> r.seen, requested |-> TRUE]

-----------------------------------------------------------------------------
(* TumblrFetcher.GetPush *)

\* PushLoop as it would be if a failed source ended the loop
RECURSIVE PushLoopStopsOnError(_, _, _, _, _, _, _, _)
PushLoopStopsOnError(followings, i, lu, key, responses, feeds, blockDB, acc) ==
    IF i > Len(followings) THEN acc
    ELSE LET follow == followings[i]
             r == getUserTimeline(follow, lu, key, responses[i], feeds[follow],
                                  acc.cache, blockDB)
             call == [user |-> follow, time |-> lu, failed |-> r.err # nil,
                      ret |-> r.ret, seen |-> r.seen, requested |-> r.requested,
                      cacheBefore |-> acc.cache]
             next == [ret |-> IF r.err = nil THEN acc.ret \o r.ret ELSE acc.ret,
                      cache |-> r.cache,
                      calls |-> Append(acc.calls, call)]
         IN IF r.err # nil
            THEN next
            ELSE PushLoopStopsOnError(followings, i + 1, lu, key, responses, feeds,
                                      blockDB, next)

\* lines 168-173: the loop over followings from index i on; responses[i] is how
\* the i-th request ends. acc.calls records every getUserTimeline invocation.
RECURSIVE PushLoop(_, _, _, _, _, _, _, _)
PushLoop(followings, i, lu, key, responses, feeds, blockDB, acc) ==
    IF i > Len(followings) THEN acc
    ELSE LET follow == followings[i]
             r == getUserTimeline(follow, lu, key, responses[i], feeds[follow],
                                  acc.cache, blockDB)
             call == [user |-> follow, time |-> lu, failed |-> r.err # nil,
                      ret |-> r.ret, seen |-> r.seen, requested |-> r.requested,
                      cacheBefore |-> acc.cache]
         IN PushLoop(followings, i + 1, lu, key, responses, feeds, blockDB,
              [ret |-> IF r.err = nil THEN acc.ret \o r.ret ELSE acc.ret,
               cache |-> r.cache,
               calls |-> Append(acc.calls, call)])

\* lines 163-166: the cursor GetPush starts from
ReadLastUpdate(db, userid) ==
    LET got == DBGet(db, userid, 0) IN IF got.err # nil THEN 0 ELSE got.val

\* the followings lists handed to GetPush
Followings == {<<>>} \cup {<<u>> : u \in Sources} \cup {<<u, v>> : u \in Sources, v \in Sources}

\* how the requests of a push end
PushResponses == {"ok", "http error"}

GetPush(userid, followings, responses) ==
    LET lu == ReadLastUpdate(last_update, userid)
        r == PushLoop(followings, 1, lu, OAuthConsumerKey, responses, feed, block,
                      [ret |-> <<>>, cache |-> cache, calls |-> <<>>])
    IN /\ cache' = r.cache
       /\ last_update' = IF Len(r.ret) # 0
                         THEN DBSet(last_update, userid, now)
                         ELSE last_update
       /\ op' = [name |-> "GetPush", userid |-> userid, followings |-> followings,
                 calls |-> r.calls, ret |-> r.ret]
       /\ UNCHANGED <<OAuthConsumerKey, feed, block, now, blockCalls, sendOp, fetches, sendAll>>

-----------------------------------------------------------------------------
(* TumblrFetcher.GoBack *)

GoBack(userid, back) ==
    /\ IF back > now
       THEN /\ last_update' = last_update
            /\ op' = [name |-> "GoBack", userid |-> userid, back |-> back,
                      err |-> "Back too long!"]
       ELSE /\ last_update' = DBSet(last_update, userid, WrapInt64(now - back))
            /\ op' = [name |-> "GoBack", userid |-> userid, back |-> back,
                      err |-> nil]
    /\ UNCHANGED <<OAuthConsumerKey, feed, cache, block, now, blockCalls, sendOp, fetches, sendAll>>

-----------------------------------------------------------------------------
(* TumblrFetcher.Block *)

\* the texts handed to Block: a resource's caption is its URL
Captions == {UrlF, UrlGif}

\* the ids Block is called with: a blog's name or a subscriber's id
BlockUsers == {blogA} \cup Subscribers

\* ... and those whose blocks a push can meet: the followed blogs with photos
PushBlockUsers == {blogA}

\* BlockKey as it would be if it took the 3rd segment
BlockKeyThirdSegment(userid, caption) ==
    LET strsplit == Split(caption, "/") IN
    IF Len(strsplit) >= 4
    THEN [ok |-> TRUE, imghash |-> SprintfAt(userid, strsplit[3])]
    ELSE [ok |-> FALSE, imghash |-> EmptyString]

\* lines 189-191: whether the caption is recognized, and the key stored if so
BlockKey(userid, caption) ==
    LET strsplit == Split(caption, "/") IN
    IF Len(strsplit) >= 4
    THEN [ok |-> TRUE, imghash |-> SprintfAt(userid, strsplit[4])]
    ELSE [ok |-> FALSE, imghash |-> EmptyString]

\* Block as it would be if a text of fewer than 4 segments were stored whole
BlockStoresAnyText(userid, caption) ==
    LET k == BlockKey(userid, caption) IN
    /\ block' = DBSet(block, IF k.ok THEN k.imghash ELSE SprintfAt(userid, caption), TRUE)
    /\ op' = [name |-> "Block", userid |-> userid, caption |-> caption,
              result |-> IF k.ok THEN k.imghash \o <<" blocked.">>
                         ELSE <<"Unrecognized image caption.">>]
    /\ blockCalls' = IF Len(Split(caption, "/")) >= 4
                     THEN blockCalls \cup {<<userid, caption>>}
                     ELSE blockCalls
    /\ UNCHANGED <<OAuthConsumerKey, feed, cache, last_update, now, sendOp, fetches, sendAll>>

Block(userid, caption) ==
    LET k == BlockKey(userid, caption) IN
    /\ IF k.ok
       THEN /\ block' = DBSet(block, k.imghash, TRUE)
            /\ op' = [name |-> "Block", userid |-> userid, caption |-> caption,
                      result |-> k.imghash \o <<" blocked.">>]
       ELSE /\ block' = block
            /\ op' = [name |-> "Block", userid |-> userid, caption |-> caption,
                      result |-> <<"Unrecognized image caption.">>]
    \* history: the calls whose text has at least 4 segments
    /\ blockCalls' = IF Len(Split(caption, "/")) >= 4
                     THEN blockCalls \cup {<<userid, caption>>}
                     ELSE blockCalls
    /\ UNCHANGED <<OAuthConsumerKey, feed, cache, last_update, now, sendOp, fetches, sendAll>>

-----------------------------------------------------------------------------
(* Environment: the clock, the cache's expiry and the remote blogs *)

\* A second passes.
Tick ==
    /\ now < MaxInt64
    /\ now' = now + 1
    /\ op' = [name |-> "Tick"]
    /\ UNCHANGED <<OAuthConsumerKey, feed, cache, block, last_update, blockCalls, sendOp, fetches, sendAll>>

\* The time to live of an entry of the dedup cache runs out: cache.Get no
\* longer finds it.
Expire(key) ==
    /\ key \in cache
    /\ cache' = cache \ {key}
    /\ op' = [name |-> "Expire"]
    /\ UNCHANGED <<OAuthConsumerKey, feed, block, last_update, now, blockCalls, sendOp, fetches, sendAll>>

\* A blog's feed changes.
RemotePost(user, posts) ==
    /\ posts # feed[user]
    /\ feed' = [feed EXCEPT ![user] = posts]
    /\ op' = [name |-> "RemotePost"]
    /\ UNCHANGED <<OAuthConsumerKey, cache, block, last_update, now, blockCalls, sendOp, fetches, sendAll>>

-----------------------------------------------------------------------------
(* The fetcher's operations, as its callers use them *)

NoSend == [name |-> "Init"]

\* no getUserTimeline invocation is running concurrently, no SendAll was called
NoFetches == <<>>

NoSendAll == [pc |-> "none"]

InitFetcher(feeds) ==
    /\ OAuthConsumerKey \in {EmptyString, <<"k">>}
    /\ feed \in {f \in [Sources -> Feeds(PostPool)] : \A u \in Sources : f[u] \in feeds[u]}
    /\ cache = {}
    /\ block = EmptyDB
    /\ last_update = EmptyDB
    /\ now = 0
    /\ op = [name |-> "Init"]
    /\ blockCalls = {}
    /\ sendOp = NoSend
    /\ fetches = NoFetches
    /\ sendAll = NoSendAll

Init == InitFetcher([u \in Sources |-> PushFeeds(u)])

DoGetPush ==
    \E userid \in Subscribers, followings \in Followings :
        \E responses \in [1..Len(followings) -> PushResponses] :
            GetPush(userid, followings, responses)

DoGoBack == \E userid \in Subscribers, back \in Int64 : GoBack(userid, back)

DoBlock == \E userid \in PushBlockUsers, caption \in Captions : Block(userid, caption)

DoExpire == \E key \in cache : Expire(key)

DoRemotePost == \E user \in Sources : \E posts \in PushFeeds(user) : RemotePost(user, posts)

Next == DoGetPush \/ DoGoBack \/ DoBlock \/ Tick \/ DoExpire \/ DoRemotePost

Spec == Init /\ [][Next]_vars

-----------------------------------------------------------------------------
(* One fetcher serving two subscribers that follow the same blogs *)

TwoSubscribers == Subscribers \cup {<<"t">>}

DoGetPushShared ==
    \E userid \in TwoSubscribers, followings \in Followings :
        \E responses \in [1..Len(followings) -> PushResponses] :
            GetPush(userid, followings, responses)

NextShared == DoGetPushShared \/ Tick \/ DoExpire

SpecShared == Init /\ [][NextShared]_vars

-----------------------------------------------------------------------------
(* Single fetches: getUserTimeline called with any cursor *)

Fetch(user, time, response) ==
    LET r == getUserTimeline(user, time, OAuthConsumerKey, response, feed[user],
                             cache, block)
    IN /\ cache' = r.cache
       /\ op' = [name |-> "Fetch",
                 calls |-> <<[user |-> user, time |-> time, failed |-> r.err # nil,
                              ret |-> r.ret, seen |-> r.seen,
                              requested |-> r.requested, cacheBefore |-> cache]>>]
       /\ UNCHANGED <<OAuthConsumerKey, feed, block, last_update, now, blockCalls, sendOp, fetches, sendAll>>

InitFetch == InitFetcher([u \in Sources |-> FetchFeeds(u)])

\* the cursors single fetches are examined with: at, between and past the
\* timestamps of the posts
FetchTimes == {0, 1, 2}

DoFetch == \E user \in Sources, time \in FetchTimes, response \in Responses :
               Fetch(user, time, response)

DoRemotePostFetch ==
    \E user \in Sources : \E posts \in FetchFeeds(user) : RemotePost(user, posts)

DoBlockFetch == \E userid \in BlockUsers, caption \in Captions : Block(userid, caption)

NextFetch == DoFetch \/ DoBlockFetch \/ DoExpire \/ DoRemotePostFetch

SpecFetch == InitFetch /\ [][NextFetch]_vars

-----------------------------------------------------------------------------
(* getUserTimeline called from several goroutines on one fetcher: the calls   *)
(* of the go-cache (Get, Set) are atomic each, what lies between them is not  *)

\* the goroutines that call getUserTimeline
Procs == {1, 2}

IdleFetch == [pc |-> "idle", user |-> EmptyString, time |-> 0, posts |-> <<>>, i |-> 0,
              msgid |-> EmptyString, ret |-> <<>>, keys |-> <<>>, err |-> nil]

\* lines 83-102: the call up to the loop; the answer of the API is the feed of
\* the moment
StartFetch(p, user, time, response) ==
    /\ p \in DOMAIN fetches
    /\ fetches[p].pc = "idle"
    /\ LET r == getUserTimeline(user, time, OAuthConsumerKey, response, <<>>, {}, EmptyDB)
       IN fetches' = [fetches EXCEPT ![p] =
              IF r.err # nil
              THEN [IdleFetch EXCEPT !.pc = "done", !.user = user, !.time = time,
                                     !.err = r.err]
              ELSE [IdleFetch EXCEPT !.pc = "get", !.user = user, !.time = time,
                                     !.posts = feed[user], !.i = 1]]
    /\ UNCHANGED <<OAuthConsumerKey, feed, cache, block, last_update, now, op, blockCalls,
                   sendOp, sendAll>>

\* lines 103-128: one turn of the loop up to and including f.cache.Get
CheckStep(p) ==
    /\ p \in DOMAIN fetches
    /\ fetches[p].pc = "get"
    /\ LET f == fetches[p] IN
       fetches' = [fetches EXCEPT ![p] =
           IF f.i > Len(f.posts) THEN [f EXCEPT !.pc = "done"]
           ELSE IF PostAction(f.posts[f.i], f.time) = "continue"
           THEN [f EXCEPT !.i = f.i + 1]
           ELSE IF PostAction(f.posts[f.i], f.time) = "break"
           THEN [f EXCEPT !.pc = "done"]
           ELSE LET msgid == SprintfAt(f.user, MsgID(f.posts[f.i])) IN
                IF CacheGet(cache, msgid)
                THEN [f EXCEPT !.i = f.i + 1]  \* found: continue
                ELSE [f EXCEPT !.pc = "set", !.msgid = msgid]]
    /\ UNCHANGED <<OAuthConsumerKey, feed, cache, block, last_update, now, op, blockCalls,
                   sendOp, sendAll>>

\* lines 129-157: f.cache.Set and the rest of the turn
SetStep(p) ==
    /\ p \in DOMAIN fetches
    /\ fetches[p].pc = "set"
    /\ cache' = CacheSet(cache, fetches[p].msgid)
    /\ LET f == fetches[p]
           post == f.posts[f.i]
           res == PostResources(f.user, post, block)
       IN fetches' = [fetches EXCEPT ![p] =
              IF Len(res) > 0
              THEN [f EXCEPT !.pc = "get", !.i = f.i + 1,
                             !.ret = Append(f.ret, ReplyMessage(res, post.ShortURL, nil)),
                             !.keys = Append(f.keys, f.msgid)]
              ELSE [f EXCEPT !.pc = "get", !.i = f.i + 1]]
    /\ UNCHANGED <<OAuthConsumerKey, feed, block, last_update, now, op, blockCalls,
                   sendOp, sendAll>>

InitConc ==
    /\ OAuthConsumerKey = <<"k">>
    /\ feed \in {f \in [Sources -> Feeds(PostPool)] : \A u \in Sources : f[u] \in PushFeeds(u)}
    /\ cache = {}
    /\ block = EmptyDB
    /\ last_update = EmptyDB
    /\ now = 0
    /\ op = [name |-> "Init"]
    /\ blockCalls = {}
    /\ sendOp = NoSend
    /\ fetches = [p \in Procs |-> IdleFetch]
    /\ sendAll = NoSendAll

DoStartFetch ==
    \E p \in Procs, user \in Sources, time \in FetchTimes, response \in PushResponses :
        StartFetch(p, user, time, response)

DoCheckStep == \E p \in Procs : CheckStep(p)

DoSetStep == \E p \in Procs : SetStep(p)

NextConc == DoStartFetch \/ DoCheckStep \/ DoSetStep

SpecConc == InitConc /\ [][NextConc]_vars

-----------------------------------------------------------------------------
(* TelegramBot.Send *)

MaxAlbumSize == 10

\* line 66: the caption length from which the caption is cut
CaptionThreshold == 190

\* line 67: the end of the slice message.Caption[:191]
CaptionCut == 191

\* a resource type that is neither TIMAGE nor TVIDEO
TOTHER == "TOTHER"

\* line 76: errors.New("Undefined message type.")
UndefinedMessageType == "Undefined message type."

\* s[:hi]: Go panics when hi exceeds len(s)
SliceTo(s, hi) == IF hi > Len(s)
                  THEN [panic |-> TRUE, val |-> s]
                  ELSE [panic |-> FALSE, val |-> SubSeq(s, 1, hi)]

\* lines 66-68
TruncateCaption(caption) ==
    IF Len(caption) >= CaptionThreshold
    THEN SliceTo(caption, CaptionCut)
    ELSE [panic |-> FALSE, val |-> caption]

\* lines 71-77 and 99-105: the tb.Photo or tb.Video built for a resource; a nil
\* InputMedia for any other type
Media(r, caption) ==
    IF r.T = TIMAGE THEN [kind |-> "Photo", File |-> r.URL, Caption |-> caption]
    ELSE IF r.T = TVIDEO THEN [kind |-> "Video", File |-> r.URL, Caption |-> caption]
    ELSE [kind |-> "nil", File |-> EmptyString, Caption |-> EmptyString]

\* lines 97-106: the album of one batch
RECURSIVE AlbumOf(_, _)
AlbumOf(rs, caption) ==
    IF rs = <<>> THEN <<>>
    ELSE LET m == Media(Head(rs), caption)
         IN (IF m.kind = "nil" THEN <<>> ELSE <<m>>) \o AlbumOf(Tail(rs), caption)

\* AlbumLoop as it would be if a failed SendAlbum ended the loop
RECURSIVE AlbumLoopStopsOnError(_, _, _, _)
AlbumLoopStopsOnError(message, i, answers, acc) ==
    IF ~(i < Len(message.Resources)) \/ acc.ret # nil THEN acc
    ELSE LET end == IF i + MaxAlbumSize > Len(message.Resources)
                    THEN Len(message.Resources)
                    ELSE i + MaxAlbumSize
             mediaFiles == AlbumOf(SubSeq(message.Resources, i + 1, end), message.Caption)
             err == answers[Len(acc.sent) + 1]
         IN AlbumLoopStopsOnError(message, i + MaxAlbumSize, answers,
                [sent |-> Append(acc.sent, [call |-> "SendAlbum", what |-> mediaFiles,
                                            from |-> i, to |-> end]),
                 ret |-> IF err # nil THEN err ELSE acc.ret])

\* lines 92-113: the batches from offset i (0-based) on; answers[k] is the
\* transport's answer to the k-th SendAlbum
RECURSIVE AlbumLoop(_, _, _, _)
AlbumLoop(message, i, answers, acc) ==
    IF ~(i < Len(message.Resources)) THEN acc
    ELSE LET end == IF i + MaxAlbumSize > Len(message.Resources)
                    THEN Len(message.Resources)
                    ELSE i + MaxAlbumSize
             mediaFiles == AlbumOf(SubSeq(message.Resources, i + 1, end), message.Caption)
             err == answers[Len(acc.sent) + 1]
         IN AlbumLoop(message, i + MaxAlbumSize, answers,
                [sent |-> Append(acc.sent, [call |-> "SendAlbum", what |-> mediaFiles,
                                            from |-> i, to |-> end]),
                 ret |-> IF err # nil THEN err ELSE acc.ret])

\* TGBOT.Send(to, message): the transport calls made, the error returned and
\* whether the call panicked instead of returning
SendResult(message, answers) ==
    IF message.Err # nil
    THEN [sent |-> <<>>, ret |-> message.Err, panic |-> FALSE]
    ELSE IF Len(message.Resources) = 1
    THEN LET cut == TruncateCaption(message.Caption) IN
         IF cut.panic
         THEN [sent |-> <<>>, ret |-> nil, panic |-> TRUE]
         ELSE LET mediaFile == Media(message.Resources[1], cut.val)
                  \* lines 69-77: err after the type switch
                  err == IF mediaFile.kind = "nil" THEN UndefinedMessageType ELSE nil
                  \* line 78: _, err = TGBOT.Bot.Send(to, mediaFile) assigns the
                  \* transport's answer to err, whatever err held
                  errAfterSend == answers[1]
              IN [sent |-> <<[call |-> "Send", what |-> mediaFile, from |-> 0, to |-> 1]>>,
                  ret |-> errAfterSend, panic |-> FALSE]
    ELSE IF Len(message.Resources) = 0 /\ answers[1] # nil
    THEN [sent |-> <<[call |-> "SendText", what |-> message.Caption, from |-> 0, to |-> 0]>>,
          ret |-> answers[1], panic |-> FALSE]
    ELSE LET text == IF Len(message.Resources) = 0
                     THEN <<[call |-> "SendText", what |-> message.Caption,
                             from |-> 0, to |-> 0]>>
                     ELSE <<>>
             r == AlbumLoop(message, 0, [k \in 1..Len(answers) - Len(text) |-> answers[k + Len(text)]],
                            [sent |-> <<>>, ret |-> nil])
         IN [sent |-> text \o r.sent, ret |-> r.ret, panic |-> FALSE]

\* the call TGBOT.Send(to, sendOp.message), the transport answering sendOp.answers
Send ==
    /\ sendOp.name = "Pending"
    /\ sendOp' = [name |-> "Send", message |-> sendOp.message]
                     @@ SendResult(sendOp.message, sendOp.answers)
    /\ UNCHANGED <<fetcherVars, fetches, sendAll>>

\* The messages handed to Send: n resources of one type, or with one resource
\* of another type among images; a caption of every length for one resource.
Resources(n, type, odd, oddType) ==
    [i \in 1..n |-> Resource(<<"r">> \o FormatInt(i), IF i = odd THEN oddType ELSE type,
                             <<"r">> \o FormatInt(i))]

\* a caption of length len: its i-th character is the number i
CaptionOf(len) == [i \in 1..len |-> i]

Messages ==
    {ReplyMessage(Resources(1, t, 0, t), CaptionOf(len), nil) :
        t \in {TIMAGE, TVIDEO, TOTHER}, len \in 0..MaxCaption}
    \cup {ReplyMessage(Resources(n, t, odd, TOTHER), CaptionOf(len), nil) :
        n \in 0..MaxRes, t \in {TIMAGE, TVIDEO}, odd \in {0, 1, 10, 11, 12}, len \in {0, 3}}
    \cup {ReplyMessage(Resources(n, TIMAGE, 0, TIMAGE), CaptionOf(3), "fetch error") :
        n \in 0..2}

\* the answers of the transport to the calls of one Send, in order
Answers == [1..(MaxRes \div MaxAlbumSize) + 1 -> {nil, "transport error"}]

InitSend ==
    /\ OAuthConsumerKey = <<"k">>
    /\ feed = [u \in Sources |-> <<>>]
    /\ cache = {}
    /\ block = EmptyDB
    /\ last_update = EmptyDB
    /\ now = 0
    /\ op = [name |-> "Init"]
    /\ blockCalls = {}
    /\ fetches = NoFetches
    /\ sendAll = NoSendAll
    /\ \E message \in Messages, answers \in Answers :
           sendOp = [name |-> "Pending", message |-> message, answers |-> answers]

NextSend == Send

SpecSend == InitSend /\ [][NextSend]_vars

-----------------------------------------------------------------------------
(* TelegramBot.SendAll: the loop starts one goroutine per message and        *)
(* returns; the goroutines run TGBOT.Send in any order. A panic that no      *)
(* goroutine recovers ends the program, and with it every goroutine.         *)

\* the messages handed to SendAll: one image, an error of the fetcher, two
\* images (an album), and one image under a caption of CaptionThreshold bytes
SendAllPool ==
    {ReplyMessage(Resources(1, TIMAGE, 0, TIMAGE), CaptionOf(3), nil),
     ReplyMessage(<<>>, EmptyString, "fetch error"),
     ReplyMessage(Resources(2, TIMAGE, 0, TIMAGE), CaptionOf(3), nil),
     ReplyMessage(Resources(1, TIMAGE, 0, TIMAGE), CaptionOf(CaptionThreshold), nil)}

RECURSIVE SeqsUpTo(_, _)
SeqsUpTo(S, n) ==
    IF n = 0 THEN {<<>>}
    ELSE SeqsUpTo(S, n - 1) \cup {Append(q, x) : q \in SeqsUpTo(S, n - 1), x \in S}

\* lines 119-125: one turn of the loop: go TGBOT.Send(to, msg), the arguments
\* evaluated here
SpawnStep ==
    /\ sendAll.pc = "loop"
    /\ ~sendAll.crashed
    /\ sendAll.i <= Len(sendAll.messages)
    /\ sendAll' = [sendAll EXCEPT
                      !.i = sendAll.i + 1,
                      !.routines = Append(sendAll.routines,
                                          [state |-> "spawned",
                                           msg |-> sendAll.messages[sendAll.i],
                                           sent |-> <<>>, ret |-> nil])]
    /\ UNCHANGED <<fetcherVars, sendOp, fetches>>

\* lines 118, 126: the loop is over, SendAll returns err, which is nil
ReturnStep ==
    /\ sendAll.pc = "loop"
    /\ ~sendAll.crashed
    /\ sendAll.i > Len(sendAll.messages)
    /\ sendAll' = [sendAll EXCEPT !.pc = "returned", !.err = nil]
    /\ UNCHANGED <<fetcherVars, sendOp, fetches>>

\* the k-th goroutine runs TGBOT.Send(to, msg), the transport answering
\* `answers`; Send's result is dropped
RunRoutine(k, answers) ==
    /\ ~sendAll.crashed
    /\ k \in 1..Len(sendAll.routines)
    /\ sendAll.routines[k].state = "spawned"
    /\ LET r == SendResult(sendAll.routines[k].msg, answers) IN
       sendAll' = IF r.panic
                  THEN [sendAll EXCEPT !.crashed = TRUE,
                                       !.routines[k].state = "panicked"]
                  ELSE [sendAll EXCEPT !.routines[k].state = "done",
                                       !.routines[k].sent = r.sent,
                                       !.routines[k].ret = r.ret]
    /\ UNCHANGED <<fetcherVars, sendOp, fetches>>

DoRunRoutine(k) == \E answers \in Answers : RunRoutine(k, answers)

InitSendAll ==
    /\ OAuthConsumerKey = <<"k">>
    /\ feed = [u \in Sources |-> <<>>]
    /\ cache = {}
    /\ block = EmptyDB
    /\ last_update = EmptyDB
    /\ now = 0
    /\ op = [name |-> "Init"]
    /\ blockCalls = {}
    /\ sendOp = NoSend
    /\ fetches = NoFetches
    /\ \E messages \in SeqsUpTo(SendAllPool, MaxMessages) :
           sendAll = [pc |-> "loop", messages |-> messages, i |-> 1, routines |-> <<>>,
                      err |-> "unset", crashed |-> FALSE]

NextSendAll == SpawnStep \/ ReturnStep \/ \E k \in 1..MaxMessages : DoRunRoutine(k)

\* the scheduler lets SendAll's loop and every started goroutine run
FairSendAll ==
    /\ WF_vars(SpawnStep)
    /\ WF_vars(ReturnStep)
    /\ \A k \in 1..MaxMessages : WF_vars(DoRunRoutine(k))

SpecSendAll == InitSendAll /\ [][NextSendAll]_vars /\ FairSendAll

-----------------------------------------------------------------------------
(* Claims about the dispatcher (SpecSend) *)

Min(a, b) == IF a < b THEN a ELSE b

Supported(r) == r.T \in {TIMAGE, TVIDEO}

\* the URLs of the supported resources among rs[lo..hi], in order
RECURSIVE SupportedURLs(_, _, _)
SupportedURLs(rs, lo, hi) ==
    IF lo > hi THEN <<>>
    ELSE (IF Supported(rs[lo]) THEN <<rs[lo].URL>> ELSE <<>>) \o SupportedURLs(rs, lo + 1, hi)

AlbumFiles(album) == [j \in 1..Len(album) |-> album[j].File]

SentMultiple ==
    /\ sendOp.name = "Send"
    /\ sendOp.message.Err = nil
    /\ Len(sendOp.message.Resources) >= 2

\* C6: a message with n >= 2 resources goes out as ceil(n/10) album sends, in
\* resource order: the k-th batch is built from resources 10(k-1)+1 .. 10k,
\* the last one from the remainder; no batch holds more than 10 items, and a
\* batch whose resources are all images or videos holds every one of them
\* (23 resources: sizes 10, 10, 3).
C6_BatchSizing ==
    SentMultiple =>
        LET rs == sendOp.message.Resources
            n == Len(rs)
            sent == sendOp.sent
        IN /\ Len(sent) = (n + 9) \div 10
           /\ \A k \in 1..Len(sent) :
                LET lo == 10 * (k - 1) + 1
                    hi == Min(10 * k, n)
                IN /\ sent[k].call = "SendAlbum"
                   /\ AlbumFiles(sent[k].what) = SupportedURLs(rs, lo, hi)
                   /\ Len(sent[k].what) <= 10
                   /\ (\A i \in lo..hi : Supported(rs[i])) =>
                          Len(sent[k].what) = (IF k < Len(sent) THEN 10 ELSE n - 10 * (k - 1))

\* C6 witness: 23 images went out as albums of 10, 10 and 3, the second
\* SendAlbum having failed
C6_Witness ==
    /\ SentMultiple
    /\ Len(sendOp.message.Resources) = 23
    /\ Len(sendOp.sent) = 3
    /\ Len(sendOp.sent[1].what) = 10
    /\ Len(sendOp.sent[2].what) = 10
    /\ Len(sendOp.sent[3].what) = 3
    /\ sendOp.ret # nil

SentSingle ==
    /\ sendOp.name = "Send"
    /\ sendOp.message.Err = nil
    /\ Len(sendOp.message.Resources) = 1
    /\ Supported(sendOp.message.Resources[1])

\* C10: for a single-resource message with a caption of any length L, Send
\* returns (it does not abort) and the caption handed to the transport is the
\* first min(L, 191) characters of the message's caption.
C10_CaptionTruncation ==
    SentSingle =>
        LET caption == sendOp.message.Caption IN
        /\ ~sendOp.panic
        /\ Len(sendOp.sent) = 1
        /\ sendOp.sent[1].what.Caption = SubSeq(caption, 1, Min(Len(caption), 191))

\* Send returned for a message with one resource that is neither an image nor
\* a video
SentUnsupported ==
    /\ sendOp.name = "Send"
    /\ sendOp.message.Err = nil
    /\ Len(sendOp.message.Resources) = 1
    /\ ~Supported(sendOp.message.Resources[1])
    /\ ~sendOp.panic

\* C11: for a message with one resource whose type is neither TIMAGE nor
\* TVIDEO, Send returns the error "Undefined message type.", whatever the
\* transport answers.
C11_UnsupportedMedia ==
    SentUnsupported => sendOp.ret = UndefinedMessageType

\* the delivery of the k-th message of SendAll was attempted: its goroutine ran
Attempted(k) ==
    /\ k <= Len(sendAll.routines)
    /\ sendAll.routines[k].state # "spawned"

\* C15: SendAll returns, and returns nil; the delivery of every message handed
\* to it is eventually attempted, whatever becomes of the others; a message
\* that carries an error causes no call of the transport.
C15_SendAllIsolating ==
    /\ <>(sendAll.pc = "returned")
    /\ [](sendAll.pc = "returned" => sendAll.err = nil)
    /\ \A k \in 1..MaxMessages : <>(k <= Len(sendAll.messages) => Attempted(k))
    /\ [](\A k \in 1..Len(sendAll.routines) :
             sendAll.routines[k].msg.Err # nil => sendAll.routines[k].sent = <<>>)

-----------------------------------------------------------------------------
(* Claims about single fetches (SpecFetch, Spec) *)

\* the getUserTimeline invocations of the last operation
Calls == IF op.name \in {"Fetch", "GetPush"} THEN op.calls ELSE <<>>

OkCalls == {n \in 1..Len(Calls) : ~Calls[n].failed}

Eligible(p) == p.Type \in {<<"photo">>, <<"video">>}

KeyOf(user, p) == SprintfAt(user, MsgID(p))

\* the number of messages the call appended for the post at index j of the feed
MsgCount(c, j) ==
    Cardinality({k \in 1..Len(c.seen) : c.seen[k].idx = j /\ c.seen[k].emitted})

\* the message appended for the k-th post that passed the dedup check
MsgOf(c, k) == c.ret[Cardinality({m \in 1..k : c.seen[m].emitted})]

\* the returned messages are those appended, in order, each captioned with the
\* short URL of its post
RetMatchesSeen(c) ==
    /\ Len(c.ret) = Cardinality({k \in 1..Len(c.seen) : c.seen[k].emitted})
    /\ \A k \in 1..Len(c.seen) :
           c.seen[k].emitted =>
               /\ MsgOf(c, k).Caption = feed[c.user][c.seen[k].idx].ShortURL
               /\ MsgOf(c, k).Err = nil

\* the block registry holds true for the photo's 4th segment
Blocked(user, url) ==
    LET seg == Split(url, "/") IN
    /\ Len(seg) >= 4
    /\ SprintfAt(user, seg[4]) \in DOMAIN block
    /\ block[SprintfAt(user, seg[4])]

\* every resource of the post is blocked: it has no video URL (which nothing
\* blocks) and each of its photos is blocked
AllBlocked(user, p) ==
    /\ p.VideoURL = EmptyString
    /\ \A i \in 1..Len(p.Photos) : Blocked(user, p.Photos[i])

\* the least index of posts among olds, or Len(posts) + 1
FirstIndex(posts, olds) ==
    IF olds # {}
    THEN CHOOSE j \in olds : \A i \in olds : j <= i
    ELSE Len(posts) + 1

\* where the loop of the call ends: the first photo or video post older than
\* the cursor
Boundary(c) ==
    FirstIndex(feed[c.user], {j \in 1..Len(feed[c.user]) :
        Eligible(feed[c.user][j]) /\ feed[c.user][j].Timestamp < c.time})

\* the key is in the dedup cache when the call comes to the post at index j:
\* it was there when the call started, or the call inserted it for an earlier post
InCacheWhenReached(c, key, j) ==
    \/ key \in c.cacheBefore
    \/ \E k \in 1..Len(c.seen) : c.seen[k].idx < j /\ c.seen[k].key = key

\* the post at index j comes before the boundary, is a photo or video post,
\* and its key is not in the dedup cache when the call comes to it
Considered(c, j) ==
    LET posts == feed[c.user] IN
    /\ j < Boundary(c)
    /\ Eligible(posts[j])
    /\ ~InCacheWhenReached(c, KeyOf(c.user, posts[j]), j)

\* C1 as stated: in a successful fetch, every photo or video post of the feed
\* with timestamp >= since whose key is not in the dedup cache gets exactly one
\* message, or none if all its resources are blocked.
C1_EveryNewPostOnce ==
    \A n \in OkCalls :
        LET c == Calls[n]
            posts == feed[c.user]
        IN \A j \in 1..Len(posts) :
               (/\ Eligible(posts[j])
                /\ posts[j].Timestamp >= c.time
                /\ ~InCacheWhenReached(c, KeyOf(c.user, posts[j]), j))
               => MsgCount(c, j) = (IF AllBlocked(c.user, posts[j]) THEN 0 ELSE 1)

\* C1 amended: in a successful fetch, every photo or video post that comes
\* before the first photo or video post older than since (so that its own
\* timestamp is >= since), and whose key is not in the dedup cache, gets
\* exactly one message, or none if all its resources are blocked.
C1_ConsideredPostOnce ==
    \A n \in OkCalls :
        LET c == Calls[n]
            posts == feed[c.user]
        IN /\ RetMatchesSeen(c)
           /\ \A j \in 1..Len(posts) :
                  Considered(c, j)
                  => MsgCount(c, j) = (IF AllBlocked(c.user, posts[j]) THEN 0 ELSE 1)

\* C1 witness: a fetch that returned a message for one new post and none for
\* another new post whose only photo is blocked
C1_Witness ==
    \E n \in OkCalls :
        LET c == Calls[n]
            posts == feed[c.user]
        IN \E i, j \in 1..Len(posts) :
               /\ Considered(c, i) /\ MsgCount(c, i) = 1
               /\ Considered(c, j) /\ MsgCount(c, j) = 0
               /\ Len(posts[j].Photos) > 0

Populated(id) ==
    \/ id.kind = "string" /\ id.s # EmptyString
    \/ id.kind \in {"float64", "int64"} /\ id.n # 0

OriginalID(id) == IF id.kind = "string" THEN id.s ELSE FormatInt(id.n)

\* C3 as stated: a post with a non-empty trail whose first entry has a
\* populated post id is keyed by that original id (the string, or the number
\* in decimal), so it gets no message when the key of that id is already in
\* the dedup cache, whatever the post's own id.
C3_ReblogIdentity ==
    \A n \in OkCalls :
        LET c == Calls[n]
            posts == feed[c.user]
        IN \A j \in 1..Len(posts) :
               (Len(posts[j].Trail) >= 1 /\ Populated(posts[j].Trail[1].Post_ID))
               => LET key == SprintfAt(c.user, OriginalID(posts[j].Trail[1].Post_ID))
                  IN InCacheWhenReached(c, key, j) => MsgCount(c, j) = 0

\* Block was called for this user with a text whose 4th segment is the photo's
BlockedByCall(user, url) ==
    LET seg == Split(url, "/") IN
    /\ Len(seg) >= 4
    /\ \E b \in blockCalls : b[1] = user /\ Split(b[2], "/")[4] = seg[4]

RECURSIVE UnblockedPhotos(_, _)
UnblockedPhotos(user, photos) ==
    IF photos = <<>> THEN <<>>
    ELSE (IF BlockedByCall(user, Head(photos)) THEN <<>> ELSE <<Head(photos)>>)
             \o UnblockedPhotos(user, Tail(photos))

ResourceURLs(m) == [i \in 1..Len(m.Resources) |-> m.Resources[i].URL]

CacheAfter(n) == IF n < Len(Calls) THEN Calls[n + 1].cacheBefore ELSE cache

\* C8 as stated: the loop ends at the first post older than since; no post
\* after it is appended or inserted into the dedup cache.
C8_StopsAtFirstOldPost ==
    \A n \in OkCalls :
        LET c == Calls[n]
            first == FirstIndex(feed[c.user],
                         {j \in 1..Len(feed[c.user]) : feed[c.user][j].Timestamp < c.time})
        IN /\ \A k \in 1..Len(c.seen) : c.seen[k].idx < first
           /\ CacheAfter(n) \ c.cacheBefore \subseteq
                  {KeyOf(c.user, feed[c.user][j]) : j \in 1..(first - 1)}

\* C8 amended: the loop goes through the feed in order and ends at the first
\* photo or video post older than since; no post after that one is appended or
\* inserted into the dedup cache, whatever its timestamp or type.
C8_StopsAtFirstOldEligiblePost ==
    \A n \in OkCalls :
        LET c == Calls[n] IN
        /\ \A k \in 1..Len(c.seen) : c.seen[k].idx < Boundary(c)
        /\ \A k \in 1..(Len(c.seen) - 1) : c.seen[k].idx < c.seen[k + 1].idx
        /\ CacheAfter(n) \ c.cacheBefore \subseteq
               {KeyOf(c.user, feed[c.user][j]) : j \in 1..(Boundary(c) - 1)}

\* C8 witness: the loop ended at an old photo post, and a newer, unseen photo
\* post after it was neither appended nor inserted
C8_Witness ==
    \E n \in OkCalls :
        LET c == Calls[n]
            posts == feed[c.user]
        IN /\ Boundary(c) <= Len(posts)
           /\ \E j \in (Boundary(c) + 1)..Len(posts) :
                  /\ Eligible(posts[j])
                  /\ posts[j].Timestamp >= c.time
                  /\ KeyOf(c.user, posts[j]) \notin cache
           /\ c.ret = <<>>

\* the keys the call inserted for posts it returned a message for
ReturnedKeys(c) == {c.seen[k].key : k \in {m \in 1..Len(c.seen) : c.seen[m].emitted}}

\* C12 as stated: a fetch inserts a key into the dedup cache only for a post it
\* returns a message for; a post that is filtered out or whose resources are
\* all blocked causes no insertion.
C12_InsertOnlyReturned ==
    \A n \in 1..Len(Calls) :
        /\ CacheAfter(n) \ Calls[n].cacheBefore \subseteq ReturnedKeys(Calls[n])
        /\ \A k \in 1..Len(Calls[n].seen) : Calls[n].seen[k].emitted

\* the keys of the photo and video posts the loop of the call comes to
ReachedKeys(c) ==
    {KeyOf(c.user, feed[c.user][j]) :
        j \in {i \in 1..(Boundary(c) - 1) : Eligible(feed[c.user][i])}}

\* C12 amended: a successful fetch inserts into the dedup cache exactly the keys
\* of the photo and video posts before the cursor boundary that were not in
\* it, among them the key of every post it returns a message for and the key
\* of a post it returns none for because all its resources are blocked; a post
\* of another type or at or after the boundary causes no insertion, and a
\* failed fetch none at all.
C12_InsertForEveryReachedPost ==
    \A n \in 1..Len(Calls) :
        LET c == Calls[n] IN
        IF c.failed
        THEN CacheAfter(n) = c.cacheBefore
        ELSE /\ CacheAfter(n) = c.cacheBefore \cup ReachedKeys(c)
             /\ ReturnedKeys(c) \subseteq CacheAfter(n) \ c.cacheBefore

\* C12 witness: a fetch inserted the key of a post it returned no message for,
\* all the post's photos being blocked
C12_Witness ==
    \E n \in OkCalls :
        LET c == Calls[n] IN
        \E k \in 1..Len(c.seen) :
            /\ ~c.seen[k].emitted
            /\ AllBlocked(c.user, feed[c.user][c.seen[k].idx])
            /\ Len(feed[c.user][c.seen[k].idx].Photos) > 0
            /\ c.seen[k].key \notin c.cacheBefore
            /\ c.seen[k].key \in CacheAfter(n)

\* C13: a fetch with an empty key fails without a request; a fetch that fails
\* (no key, failed request, undecodable answer, status other than 200) returns
\* no message and leaves the dedup cache, the block registry and the cursors
\* as they were.
C13_FailedFetchNoEffect ==
    [][op'.name = "Fetch" =>
         LET c == op'.calls[1] IN
         /\ OAuthConsumerKey = EmptyString => (c.failed /\ ~c.requested)
         /\ c.failed => /\ c.ret = <<>>
                        /\ c.seen = <<>>
                        /\ cache' = cache
                        /\ block' = block
                        /\ last_update' = last_update]_vars

\* C13 witness: a fetch failed after its request, the dedup cache holding the
\* key of a post of the fetched feed that is new enough, and the block
\* registry an entry
C13_Witness ==
    /\ op.name = "Fetch"
    /\ op.calls[1].failed
    /\ op.calls[1].requested
    /\ block # EmptyDB
    /\ \E j \in 1..Len(feed[op.calls[1].user]) :
           LET p == feed[op.calls[1].user][j] IN
           /\ Eligible(p)
           /\ j < Boundary(op.calls[1])
           /\ KeyOf(op.calls[1].user, p) \in cache

-----------------------------------------------------------------------------
(* Claims about concurrent fetches (SpecConc) *)

\* the keys of the posts the invocation of goroutine p returned a message for
KeysReturnedBy(p) == {fetches[p].keys[k] : k \in 1..Len(fetches[p].keys)}

\* C14: of the getUserTimeline invocations running concurrently over the shared
\* dedup cache, at most one returns a message for a given key (the check and
\* the insertion act as one atomic get-or-set).
C14_AtomicDedup ==
    \A p \in DOMAIN fetches, q \in DOMAIN fetches :
        p # q => KeysReturnedBy(p) \cap KeysReturnedBy(q) = {}

-----------------------------------------------------------------------------
(* Claims about pushes and rewinds (Spec) *)

FetchOps == {"Fetch", "GetPush"}

\* two successful invocations for the same source with the same cursor
SameFetch(x, y) == ~x.failed /\ ~y.failed /\ x.user = y.user /\ x.time = y.time

\* C2: of two consecutive successful fetches of the same source with the same
\* cursor and the same feed, no dedup entry expiring in between, the second
\* returns no message; the two are neighbours within one push, or the last
\* fetch of one operation and the first of the next.
C2_SecondFetchEmpty ==
    [][op'.name \in FetchOps =>
         /\ \A n \in 1..(Len(op'.calls) - 1) :
                SameFetch(op'.calls[n], op'.calls[n + 1]) => op'.calls[n + 1].ret = <<>>
         /\ (op.name \in FetchOps /\ Len(op.calls) > 0 /\ Len(op'.calls) > 0
             /\ SameFetch(op.calls[Len(op.calls)], op'.calls[1]))
            => op'.calls[1].ret = <<>>]_vars

\* C2 witness: a push that fetched the same source twice, the first fetch
\* returning a message and the second none
C2_Witness ==
    /\ op.name = "GetPush"
    /\ Len(op.calls) = 2
    /\ SameFetch(op.calls[1], op.calls[2])
    /\ op.calls[1].ret # <<>>
    /\ op.calls[2].ret = <<>>

\* the stored cursor of a subscriber, 0 when none is stored
Cursor(db, userid) == IF userid \in DOMAIN db THEN db[userid] ELSE 0

\* C4: GetPush never leaves the subscriber's stored cursor lower than before;
\* it sets it to the current time if and only if it returns at least one
\* message, and leaves the store unchanged otherwise.
C4_CursorMonotone ==
    [][op'.name = "GetPush" =>
         /\ Cursor(last_update', op'.userid) >= Cursor(last_update, op'.userid)
         /\ op'.ret # <<>> => last_update' = DBSet(last_update, op'.userid, now)
         /\ op'.ret = <<>> => last_update' = last_update]_vars

\* C7: GoBack(userid, back) returns an error and leaves the cursors unchanged
\* if back exceeds the current time, and otherwise sets the cursor of userid to
\* exactly now - back.
C7_Rewind ==
    [][op'.name = "GoBack" =>
         IF op'.back > now
         THEN op'.err # nil /\ last_update' = last_update
         ELSE /\ op'.err = nil
              /\ op'.userid \in DOMAIN last_update'
              /\ last_update'[op'.userid] = now - op'.back
              /\ \A u \in DOMAIN last_update \ {op'.userid} :
                     u \in DOMAIN last_update' /\ last_update'[u] = last_update[u]]_vars

RECURSIVE ConcatOk(_)
ConcatOk(calls) ==
    IF calls = <<>> THEN <<>>
    ELSE (IF Head(calls).failed THEN <<>> ELSE Head(calls).ret) \o ConcatOk(Tail(calls))

\* the messages of the call are in the order of the feed
InFeedOrder(c) ==
    /\ RetMatchesSeen(c)
    /\ \A k \in 1..(Len(c.seen) - 1) : c.seen[k].idx < c.seen[k + 1].idx

\* C9: GetPush invokes the fetcher once per entry of followings, in order,
\* each time with the cursor stored when GetPush started; it returns the
\* results of the successful invocations concatenated in that order, each in
\* its feed's order; a failed invocation contributes nothing and the
\* invocations after it still take place.
C9_PartialFailure ==
    [][op'.name = "GetPush" =>
         /\ Len(op'.calls) = Len(op'.followings)
         /\ \A n \in 1..Len(op'.calls) :
                /\ op'.calls[n].user = op'.followings[n]
                /\ op'.calls[n].time = Cursor(last_update, op'.userid)
                /\ op'.calls[n].failed => op'.calls[n].ret = <<>>
                /\ ~op'.calls[n].failed => InFeedOrder(op'.calls[n])
                /\ (OAuthConsumerKey # EmptyString) => op'.calls[n].requested
         /\ op'.ret = ConcatOk(op'.calls)]_vars

\* C9 witness: the first source failed and the second one's messages were
\* returned
C9_Witness ==
    /\ op.name = "GetPush"
    /\ Len(op.calls) = 2
    /\ op.calls[1].failed
    /\ ~op.calls[2].failed
    /\ op.calls[2].ret # <<>>
    /\ op.ret = op.calls[2].ret

\* the canonical id of a post as the specification defines it: the id of the
\* first trail entry when it is populated, the post's own id otherwise
CanonicalID(p) ==
    IF Len(p.Trail) >= 1 /\ Populated(p.Trail[1].Post_ID)
    THEN OriginalID(p.Trail[1].Post_ID)
    ELSE FormatInt(p.ID)

\* the item a post of the source stands for: by its canonical id, or by the id
\* getUserTimeline computes
ItemOf(user, p, canonical) ==
    SprintfAt(user, IF canonical THEN CanonicalID(p) ELSE MsgID(p))

\* the <<n, k>> such that the n-th invocation of the operation returned a
\* message for the k-th post that passed its dedup check
Returns(calls) ==
    UNION {{<<n, k>> : k \in {m \in 1..Len(calls[n].seen) : calls[n].seen[m].emitted}} :
               n \in {m \in 1..Len(calls) : ~calls[m].failed}}

ReturnedItem(calls, nk, canonical) ==
    ItemOf(calls[nk[1]].user, feed[calls[nk[1]].user][calls[nk[1]].seen[nk[2]].idx], canonical)

\* a step in which no item is returned while its dedup entry is live: a push
\* returns no item whose entry is in the cache, returns no item twice, and
\* leaves the entry of every item it returns in the cache; an entry leaves the
\* cache only by expiring, not by a push or a rewind
AtMostOnceStep(canonical) ==
    /\ op'.name # "Expire" => cache \subseteq cache'
    /\ op'.name = "GetPush" =>
           \A x \in Returns(op'.calls) :
               /\ ReturnedItem(op'.calls, x, canonical) \notin cache
               /\ ReturnedItem(op'.calls, x, canonical) \in cache'
               /\ \A y \in Returns(op'.calls) :
                      ReturnedItem(op'.calls, y, canonical)
                          = ReturnedItem(op'.calls, x, canonical) => y = x

\* C16: over any sequence of GetPush and GoBack calls, an item (source,
\* canonical id) is returned at most once while its dedup entry has not
\* expired; a rewind does not bring it back.
C16_AtMostOnce == [][AtMostOnceStep(TRUE)]_vars

\* the same for the items as getUserTimeline identifies them (by the key it
\* computes): this holds
AtMostOncePerKey == [][AtMostOnceStep(FALSE)]_vars

\* the first invocation for the user in the calls of a push, 0 if there is none
FirstCallFor(calls, user) ==
    IF \E m \in 1..Len(calls) : calls[m].user = user
    THEN CHOOSE m \in 1..Len(calls) :
             calls[m].user = user /\ \A l \in 1..(m - 1) : calls[l].user # user
    ELSE 0

\* C17: when a push in which the fetch of one source failed returned a message
\* of another source (so that the cursor moved from old to new), the next push
\* for the subscriber in which the fetch of that source succeeds returns every
\* photo or video post of the source with old <= timestamp < new that is not
\* in the dedup cache and not wholly blocked.
C17_NoWindowDropped ==
    [][(/\ op.name = "GetPush"
        /\ op.ret # <<>>
        /\ op'.name = "GetPush"
        /\ op'.userid = op.userid) =>
         \A n \in 1..Len(op.calls) :
             LET user == op.calls[n].user
                 m == FirstCallFor(op'.calls, user)
                 old == op.calls[n].time
                 new == Cursor(last_update, op.userid)
             IN (op.calls[n].failed /\ m > 0 /\ ~op'.calls[m].failed) =>
                    \A j \in 1..Len(feed[user]) :
                        (/\ Eligible(feed[user][j])
                         /\ old <= feed[user][j].Timestamp
                         /\ feed[user][j].Timestamp < new
                         /\ KeyOf(user, feed[user][j]) \notin cache
                         /\ ~AllBlocked(user, feed[user][j]))
                        => MsgCount(op'.calls[m], j) = 1]_vars

\* C19: every stored cursor lies between 0 and the current time, whatever the
\* GetPush and GoBack calls made, negative seconds included.
C19_CursorRange ==
    \A u \in DOMAIN last_update : 0 <= last_update[u] /\ last_update[u] <= now

\* C20: only Block writes the block registry (GetPush with its fetches and
\* GoBack leave it as it is); Block with a text of fewer than 4 segments
\* returns "Unrecognized image caption." and leaves the registry, the dedup
\* cache and the cursors unchanged, and with 4 or more it sets the entry of
\* userid@segment to true; no entry is ever false, and an entry that is true
\* stays true.
C20_BlockFrame ==
    [][/\ op'.name # "Block" => block' = block
       /\ op'.name = "Block" =>
              IF Len(Split(op'.caption, "/")) < 4
              THEN /\ op'.result = <<"Unrecognized image caption.">>
                   /\ block' = block
                   /\ cache' = cache
                   /\ last_update' = last_update
              ELSE /\ SprintfAt(op'.userid, Split(op'.caption, "/")[4]) \in DOMAIN block'
                   /\ DOMAIN block' = DOMAIN block
                          \cup {SprintfAt(op'.userid, Split(op'.caption, "/")[4])}
                   /\ cache' = cache
                   /\ last_update' = last_update
       /\ \A k \in DOMAIN block' : block'[k] = TRUE
       /\ \A k \in DOMAIN block : k \in DOMAIN block']_vars

\* C20 witness: Block was called with a text of fewer than 4 segments while
\* the registry, the dedup cache and the cursor store all held an entry
C20_Witness ==
    /\ op.name = "Block"
    /\ Len(Split(op.caption, "/")) < 4
    /\ op.result = <<"Unrecognized image caption.">>
    /\ block # EmptyDB
    /\ cache # {}
    /\ last_update # EmptyDB

-----------------------------------------------------------------------------
(* Claims about two subscribers of one fetcher (SpecShared) *)

\* C18: a post returned by a push for one subscriber is also returned by the
\* next push for another subscriber that follows the same source, when that
\* push fetches the source successfully with a cursor not newer than the post
\* and its loop comes to the post.
C18_NoLeakAcrossSubscribers ==
    [][(/\ op.name = "GetPush"
        /\ op'.name = "GetPush"
        /\ op'.userid # op.userid) =>
         \A x \in Returns(op.calls) :
             LET user == op.calls[x[1]].user
                 j == op.calls[x[1]].seen[x[2]].idx
                 m == FirstCallFor(op'.calls, user)
             IN (/\ m > 0
                 /\ ~op'.calls[m].failed
                 /\ op'.calls[m].time <= feed[user][j].Timestamp
                 /\ j < Boundary(op'.calls[m]))
                => MsgCount(op'.calls[m], j) = 1]_vars

====
